---- MODULE Spec2Model ----
(***************************************************************************)
(* The collection pass of the exporter: State::get_metrics and the fetch   *)
(* helpers it calls (src/src/state.rs).  One pass fetches the group        *)
(* listing, spawns one task per group behind a semaphore of 8 permits, and *)
(* each task fetches users, clusters and per-cluster status and writes     *)
(* gauges.  The upstream API is a fixed map from request path to HTTP      *)
(* response, chosen in Init.                                               *)
(***************************************************************************)
EXTENDS Integers, Sequences, FiniteSets, TLC

\* Longest group listing explored with every combination of upstream profiles.
MaxEntities == 2
\* Longest group listing explored under the periodic upstream of InitCap.
MaxGroups == 9
\* Passes the caller starts one after the other.
MaxPasses == 2

\* Mutant: a semaphore of one permit more.
PermitsNine == 8 + 1

\* Semaphore::new(8)
Permits == 8

(***************************************************************************)
(* Values                                                                  *)
(***************************************************************************)
Ok(v) == [ok |-> TRUE, val |-> v]
Err(e) == [ok |-> FALSE, err |-> e]

\* RestError variants as this file constructs them: unit variants carry
\* nothing, Hyper carries the hyper error.
NotFound == [kind |-> "NotFound", payload |-> <<>>]
Forbidden == [kind |-> "Forbidden", payload |-> <<>>]
Unauthorized == [kind |-> "Unauthorized", payload |-> <<>>]
UnknownCode == [kind |-> "UnknownCode", payload |-> <<>>]
Hyper(e) == [kind |-> "Hyper", payload |-> <<e>>]
SerdeJson == [kind |-> "SerdeJson", payload |-> <<>>]

\* JSON bodies: the schema a body deserializes as, and the decoded value.
Json(schema, value) == [schema |-> schema, value |-> value]
Garbage == Json("none", <<>>)

\* What the HTTP client hands back for one request.
Http(status, body) ==
    [transport |-> "ok", cause |-> "", status |-> status, readable |-> TRUE, body |-> body]
Truncated(status) ==
    [transport |-> "ok", cause |-> "", status |-> status, readable |-> FALSE, body |-> Garbage]
TransportFailure(cause) ==
    [transport |-> "error", cause |-> cause, status |-> 0, readable |-> FALSE, body |-> Garbage]

Group(id, name) == [id |-> id, name |-> name]
Scope(name, type) == [name |-> name, type |-> type]
User(username, scopes) == [username |-> username, scopes |-> scopes]
Cluster(name) == [name |-> name]

GroupsBody(results) == Json("Groups", [results |-> results])
UsersBody(results) == Json("DatabaseUsers", [results |-> results])
ClustersBody(results) == Json("Clusters", [results |-> results])
StatusBody(s) == Json("ChangeStatus", [changeStatus |-> s])

(***************************************************************************)
(* The upstream API explored                                               *)
(***************************************************************************)
Names == <<"A", "B", "C", "D">>
ClusterNames == {"X", "Y"}

Status(x, y) == [c \in ClusterNames |-> IF c = "X" THEN x ELSE y]
Profile(users, clusters, status) ==
    [users |-> users, clusters |-> clusters, status |-> status]

Applied == Http(200, StatusBody("APPLIED"))
Pending == Http(200, StatusBody("PENDING"))

Profiles == <<
    \* users 401; one cluster, APPLIED
    Profile(Http(401, Garbage),
            Http(200, ClustersBody(<<Cluster("X")>>)),
            Status(Applied, Applied)),
    \* one user without scopes; no clusters
    Profile(Http(200, UsersBody(<<User("u1", <<>>)>>)),
            Http(200, ClustersBody(<<>>)),
            Status(Applied, Applied)),
    \* an unscoped and a scoped user; PENDING and an unrecognized status
    Profile(Http(200, UsersBody(<<User("u1", <<>>),
                                  User("u2", <<Scope("c1", "CLUSTER"), Scope("c2", "CLUSTER")>>)>>)),
            Http(200, ClustersBody(<<Cluster("X"), Cluster("Y")>>)),
            Status(Pending, Http(200, StatusBody("DELETING")))),
    \* empty user listing; clusters 403
    Profile(Http(200, UsersBody(<<>>)),
            Http(403, Garbage),
            Status(Applied, Applied)),
    \* users: connection failure; clusters: undecodable body
    Profile(TransportFailure("timeout"),
            Http(200, Garbage),
            Status(Applied, Applied)),
    \* a user with a repeated scope; first status 404, second APPLIED
    Profile(Http(200, UsersBody(<<User("u1", <<Scope("c1", "CLUSTER"), Scope("c1", "DATA_LAKE")>>)>>)),
            Http(200, ClustersBody(<<Cluster("X"), Cluster("Y")>>)),
            Status(Http(404, Garbage), Applied)),
    \* users 201 with a decodable listing; a cluster listed twice, empty status
    Profile(Http(201, UsersBody(<<User("u1", <<>>)>>)),
            Http(200, ClustersBody(<<Cluster("X"), Cluster("X")>>)),
            Status(Http(200, StatusBody("")), Applied)),
    \* users: body cut off; clusters 500
    Profile(Truncated(200),
            Http(500, Garbage),
            Status(Applied, Applied))
>>

\* Listings of n groups with ids 1..n: each group under its own name, or all
\* under one name.
Listings(n) ==
    { [i \in 1..n |-> Group(i, Names[i])], [i \in 1..n |-> Group(i, Names[1])] }

\* Responses to the groups request that get_groups turns into an error; all
\* but the undecodable ones carry a listing that would decode.
OneGroup == GroupsBody(<<Group(1, "A")>>)
FailingGroupsResponses == <<
    Http(404, OneGroup), Http(403, OneGroup), Http(401, OneGroup),
    Http(500, OneGroup), Http(201, OneGroup), Http(204, OneGroup),
    Http(301, OneGroup), Http(200, Garbage), Truncated(200),
    TransportFailure("dns") >>

(***************************************************************************)
(* State                                                                   *)
(***************************************************************************)
VARIABLES
    upstream,   \* the API: [groups |-> response, entity |-> [id -> index in Profiles]]
    pc,         \* get_metrics: "idle", "groups", "loop" (a group left, no permit yet),
                \* "spawn" (permit acquired), "join", "returned", or "dropped"
                \* (the caller dropped the future at one of its awaits)
    result,     \* what get_metrics returned: <<>> until it returns
    body,       \* body.results of the decoded group listing
    next,       \* index of the group the for loop is at
    sem,        \* free permits of the semaphore
    handles,    \* the JoinHandles pushed, as task numbers
    task,       \* per group: the spawned task
    mainCalls,  \* the paths get_metrics itself has called State::get with
    mainLogged, \* the error lines logged by get_metrics itself
    pass        \* the number of the pass the caller has started

vars == <<upstream, pc, result, body, next, sem, handles, task, mainCalls, mainLogged, pass>>

\* The task of one group: where it is, the cluster listing it got, the index
\* of the cluster whose status it is fetching, the gauges it has set, the
\* paths it has called State::get with and the error lines it has logged.
Unspawned ==
    [pc |-> "unspawned", clusters |-> <<>>, k |-> 0,
     emitted |-> <<>>, calls |-> <<>>, logged |-> <<>>]

(***************************************************************************)
(* The REST client                                                         *)
(***************************************************************************)
GroupsPath == <<"groups", "?itemsPerPage=500">>
UsersPath(group) == <<"groups", group, "databaseUsers", "?itemsPerPage=500">>
ClustersPath(group) == <<"groups", group, "clusters", "?itemsPerPage=500">>
StatusPath(group, cluster) == <<"groups", group, "clusters", cluster, "status">>

\* self.client.request(req).await: the upstream's answer to a path.
Serve(path) ==
    IF Len(path) = 2 THEN upstream.groups
    ELSE IF path[2] \notin DOMAIN upstream.entity THEN Http(404, Garbage)
    ELSE LET profile == Profiles[upstream.entity[path[2]]] IN
         IF Len(path) = 4 /\ path[3] = "databaseUsers" THEN profile.users
         ELSE IF Len(path) = 4 THEN profile.clusters
         ELSE IF path[4] \in ClusterNames THEN profile.status[path[4]]
         ELSE Http(404, Garbage)

ErrorLine(msg, args) == [level |-> "error", msg |-> msg, args |-> args]

\* Mutant: every 2xx status taken for success.
ClassifyStatusAny2xx(response) ==
    CASE response.status = 404 -> [res |-> Err(NotFound), log |-> <<>>]
      [] response.status = 403 -> [res |-> Err(Forbidden), log |-> <<>>]
      [] response.status = 401 -> [res |-> Err(Unauthorized), log |-> <<>>]
      [] response.status \in 200..299 -> [res |-> Ok(response), log |-> <<>>]
      [] OTHER -> [res |-> Err(UnknownCode),
                   log |-> <<ErrorLine("Got bad status code getting config: {}",
                                       <<response.status>>)>>]

\* The match on response.status().as_u16().
ClassifyStatus(response) ==
    CASE response.status = 404 -> [res |-> Err(NotFound), log |-> <<>>]
      [] response.status = 403 -> [res |-> Err(Forbidden), log |-> <<>>]
      [] response.status = 401 -> [res |-> Err(Unauthorized), log |-> <<>>]
      [] response.status = 200 -> [res |-> Ok(response), log |-> <<>>]
      [] OTHER -> [res |-> Err(UnknownCode),
                   log |-> <<ErrorLine("Got bad status code getting config: {}",
                                       <<response.status>>)>>]

\* State::get: one request, classified.
get(path) ==
    LET response == Serve(path) IN
    IF response.transport = "error"
    THEN [res |-> Err(Hyper(response.cause)),
          log |-> <<ErrorLine("{\"error\":\"{}\"", <<response.cause>>)>>]
    ELSE ClassifyStatus(response)

\* The tail shared by get_users, get_clusters, get_cluster_status and
\* get_groups: `?` on get, to_bytes, serde_json::from_slice.
Decode(r, schema) ==
    IF ~r.ok THEN r
    ELSE IF ~r.val.readable THEN Err(Hyper("body"))
    ELSE IF r.val.body.schema # schema THEN Err(SerdeJson)
    ELSE Ok(r.val.body.value)

get_users(group) == Decode(get(UsersPath(group)).res, "DatabaseUsers")
get_clusters(group) == Decode(get(ClustersPath(group)).res, "Clusters")
get_cluster_status(group, cluster) ==
    Decode(get(StatusPath(group, cluster)).res, "ChangeStatus")
get_groups == Decode(get(GroupsPath).res, "Groups")

(***************************************************************************)
(* The gauges                                                              *)
(***************************************************************************)
\* metrics::gauge!(name, value, &labels)
gauge(name, value, labels) == [name |-> name, value |-> value, labels |-> labels]

\* Mutant: the "all" scope added to every user.
ScopesAlwaysAll(user) == <<Scope("all", "CLUSTER")>> \o user.scopes

\* match user.scopes.len() { 0 => vec![Scope all/CLUSTER], _ => user.scopes.clone() }
Scopes(user) ==
    IF Len(user.scopes) = 0 THEN <<Scope("all", "CLUSTER")>> ELSE user.scopes

\* for scope in scopes { gauge!("atlas_exporter_project_user", 1, ...) }
ScopeGauges(group, user, scopes) ==
    [i \in 1..Len(scopes) |->
        gauge("atlas_exporter_project_user", 1,
              << <<"username", user.username>>, <<"project", group.name>>,
                 <<"scope", scopes[i].name>> >>)]

\* for user in database_users.results { ... }
RECURSIVE UserGauges(_, _)
UserGauges(group, users) ==
    IF Len(users) = 0 THEN <<>>
    ELSE ScopeGauges(group, Head(users), Scopes(Head(users)))
             \o UserGauges(group, Tail(users))

\* Mutant: the total counts (user, scope) pairs.
RECURSIVE UsersTotalPerScope(_)
UsersTotalPerScope(results) ==
    IF Len(results) = 0 THEN 0
    ELSE Len(Scopes(Head(results))) + UsersTotalPerScope(Tail(results))

\* database_users.results.len() as f64
UsersTotal(results) == Len(results)

\* Mutant: no total for an empty listing.
UsersGaugesSkipEmpty(group, database_users) ==
    IF Len(database_users.results) = 0 THEN <<>>
    ELSE <<gauge("atlas_exporter_project_users_total", UsersTotal(database_users.results),
                 << <<"project", group.name>> >>)>>
             \o UserGauges(group, database_users.results)

\* The Ok arm of the match on get_users.
UsersGauges(group, database_users) ==
    <<gauge("atlas_exporter_project_users_total", UsersTotal(database_users.results),
            << <<"project", group.name>> >>)>>
        \o UserGauges(group, database_users.results)

\* Mutant: the PENDING arm missing.
ChangeOrdinalNoPending(change_status) ==
    CASE change_status = "APPLIED" -> 0
      [] OTHER -> 2

\* match status.change_status.as_str() { "APPLIED" => 0, "PENDING" => 1, _ => 2 }
ChangeOrdinal(change_status) ==
    CASE change_status = "APPLIED" -> 0
      [] change_status = "PENDING" -> 1
      [] OTHER -> 2

\* The Ok arm of the match on get_cluster_status.
StatusGauges(group, cluster, status) ==
    <<gauge("atlas_exporter_cluster_status", ChangeOrdinal(status.changeStatus),
            << <<"project", group.name>>, <<"cluster", cluster.name>> >>)>>

(***************************************************************************)
(* get_metrics                                                             *)
(***************************************************************************)
Tasks == DOMAIN task

Active == {t \in Tasks : task[t].pc \notin {"unspawned", "done"}}

\* Mutant: the loop does not wait for a permit.
PermitAlwaysFree == TRUE

\* Arc::clone(&sem).acquire_owned().await completes only when a permit is free.
PermitFree == sem > 0

\* The timer tick: get_metrics is called and sends the groups request.
Trigger ==
    /\ pc = "idle"
    /\ pc' = "groups"
    /\ UNCHANGED <<upstream, result, body, next, sem, handles, task, mainCalls, mainLogged, pass>>

\* Mutant: the loop stops one group short.
AfterGroupShort(i, results) == IF i < Len(results) THEN "loop" ELSE "join"

\* for group in body.results: the loop goes on to the group at i, or is over
\* and join_all(handles) is awaited.
AfterGroup(i, results) == IF i <= Len(results) THEN "loop" ELSE "join"

\* Mutant: a failed listing is taken for an empty one.
PropagateSwallow(r) == IF r.ok THEN r ELSE Ok([results |-> <<>>])

\* What `let body = self.get_groups().await?;` lets through.
Propagate(r) == r

\* get_groups answers: an error returns from get_metrics, a listing creates
\* the semaphore and the handle vector and enters the for loop.
GroupsStep ==
    /\ pc = "groups"
    /\ LET r == Propagate(get_groups) IN
        /\ mainCalls' = Append(mainCalls, GroupsPath)
        /\ mainLogged' = mainLogged \o get(GroupsPath).log
        /\ IF r.ok
           THEN /\ body' = r.val.results
                /\ task' = [t \in 1..Len(r.val.results) |-> Unspawned]
                /\ sem' = Permits
                /\ next' = 1
                /\ pc' = AfterGroup(1, r.val.results)
                /\ UNCHANGED result
           ELSE /\ result' = Err(r.err)
                /\ pc' = "returned"
                /\ UNCHANGED <<body, task, sem, next>>
    /\ UNCHANGED <<upstream, handles, pass>>

\* let permit = Arc::clone(&sem).acquire_owned().await;
Acquire ==
    /\ pc = "loop"
    /\ PermitFree
    /\ sem' = sem - 1
    /\ pc' = "spawn"
    /\ UNCHANGED <<upstream, result, body, next, handles, task, mainCalls, mainLogged, pass>>

\* handles.push(tokio::spawn(async move { let _permit = permit; ... })): the
\* task owns the permit and has get_users to await.
Spawn ==
    /\ pc = "spawn"
    /\ task' = [task EXCEPT ![next].pc = "users"]
    /\ handles' = Append(handles, next)
    /\ next' = next + 1
    /\ pc' = AfterGroup(next + 1, body)
    /\ UNCHANGED <<upstream, result, body, sem, mainCalls, mainLogged, pass>>

\* Mutant: the handles are not awaited.
JoinAllNoWait ==
    /\ pc = "join"
    /\ result' = Ok(<<>>)
    /\ pc' = "returned"
    /\ UNCHANGED <<upstream, body, next, sem, handles, task, mainCalls, mainLogged, pass>>

\* Mutant: the first handle to complete ends the wait.
JoinAllAny ==
    /\ pc = "join"
    /\ \E i \in DOMAIN handles : task[handles[i]].pc = "done"
    /\ result' = Ok(<<>>)
    /\ pc' = "returned"
    /\ UNCHANGED <<upstream, body, next, sem, handles, task, mainCalls, mainLogged, pass>>

\* join_all completes when every handle has; get_metrics returns Ok(()).
JoinAll ==
    /\ pc = "join"
    /\ \A i \in DOMAIN handles : task[handles[i]].pc = "done"
    /\ result' = Ok(<<>>)
    /\ pc' = "returned"
    /\ UNCHANGED <<upstream, body, next, sem, handles, task, mainCalls, mainLogged, pass>>

(***************************************************************************)
(* The task of one group                                                   *)
(***************************************************************************)
\* Mutant: the permit goes back as soon as a fetch has answered.
DropPermitEarly(over) == sem + 1

\* Mutant: the permit is never given back.
DropPermitLeaked(over) == sem

\* let _permit = permit: the permit lives to the end of the task's block and
\* is dropped there, whichever arm the last match took.
DropPermit(over) == IF over THEN sem + 1 ELSE sem

\* Mutant: the cluster listing walked from its end.
ClusterAtReversed(clusters, k) == clusters[Len(clusters) + 1 - k]

\* for cluster in clusters.results: the cluster of the k-th iteration.
ClusterAt(clusters, k) == clusters[k]

\* Mutant: a failed users fetch ends the task.
AfterUsersBail(r) == IF r.ok THEN "clusters" ELSE "done"

\* Where the task goes after the match on get_users.
AfterUsers(r) == "clusters"

\* Mutant: a failed users fetch cancels the other running tasks.
UsersOutcomeAborting(t, r) ==
    [u \in DOMAIN task |->
        IF u = t
        THEN [task[t] EXCEPT
                !.pc = AfterUsers(r),
                !.calls = Append(@, UsersPath(body[t].id)),
                !.emitted = IF r.ok THEN @ \o UsersGauges(body[t], r.val) ELSE @,
                !.logged = @ \o get(UsersPath(body[t].id)).log]
        ELSE IF ~r.ok /\ task[u].pc # "unspawned"
        THEN [task[u] EXCEPT !.pc = "done"]
        ELSE task[u]]

\* Mutant: a failed users fetch is sent once more.
UsersOutcomeRetrying(t, r) ==
    [task EXCEPT
        ![t].pc = AfterUsers(r),
        ![t].calls = IF r.ok THEN Append(@, UsersPath(body[t].id))
                     ELSE @ \o <<UsersPath(body[t].id), UsersPath(body[t].id)>>,
        ![t].emitted = IF r.ok THEN @ \o UsersGauges(body[t], r.val) ELSE @,
        ![t].logged =
            @ \o get(UsersPath(body[t].id)).log
              \o (IF r.ok THEN <<>>
                  ELSE <<ErrorLine("Error getting database users for {}: {}",
                                   <<body[t].name, r.err>>)>>)]

\* What the outcome of one task's users fetch does to the tasks: the arm
\* taken sets gauges or logs, in that task alone.
UsersOutcome(t, r) ==
    [task EXCEPT
        ![t].pc = AfterUsers(r),
        ![t].calls = Append(@, UsersPath(body[t].id)),
        ![t].emitted = IF r.ok THEN @ \o UsersGauges(body[t], r.val) ELSE @,
        ![t].logged =
            @ \o get(UsersPath(body[t].id)).log
              \o (IF r.ok THEN <<>>
                  ELSE <<ErrorLine("Error getting database users for {}: {}",
                                   <<body[t].name, r.err>>)>>)]

\* get_users answers; the task sends the clusters request.
UsersStep(t) ==
    /\ task[t].pc = "users"
    /\ task' = UsersOutcome(t, get_users(body[t].id))
    /\ UNCHANGED <<upstream, pc, result, body, next, sem, handles, mainCalls, mainLogged, pass>>

\* get_clusters answers: an error or an empty listing ends the task and
\* drops its permit, otherwise the first status request is sent.
ClustersStep(t) ==
    /\ task[t].pc = "clusters"
    /\ LET r == get_clusters(body[t].id)
           over == ~r.ok \/ Len(r.val.results) = 0
       IN
        /\ task' = [task EXCEPT
              ![t].pc = IF over THEN "done" ELSE "status",
              ![t].clusters = IF r.ok THEN r.val.results ELSE @,
              ![t].k = IF over THEN @ ELSE 1,
              ![t].calls = Append(@, ClustersPath(body[t].id)),
              ![t].logged =
                  @ \o get(ClustersPath(body[t].id)).log
                    \o (IF r.ok THEN <<>>
                        ELSE <<ErrorLine("Error getting database users for {}: {}",
                                         <<body[t].name, r.err>>)>>)]
        /\ sem' = DropPermit(over)
    /\ UNCHANGED <<upstream, pc, result, body, next, handles, mainCalls, mainLogged, pass>>

\* get_cluster_status answers for the cluster at k: the gauge is set or the
\* error logged, then the next cluster is asked for, or the task ends and
\* drops its permit.
StatusStep(t) ==
    /\ task[t].pc = "status"
    /\ LET cluster == ClusterAt(task[t].clusters, task[t].k)
           r == get_cluster_status(body[t].id, cluster.name)
           over == task[t].k = Len(task[t].clusters)
       IN
        /\ task' = [task EXCEPT
              ![t].pc = IF over THEN "done" ELSE "status",
              ![t].k = IF over THEN @ ELSE @ + 1,
              ![t].calls = Append(@, StatusPath(body[t].id, cluster.name)),
              ![t].emitted = IF r.ok THEN @ \o StatusGauges(body[t], cluster, r.val) ELSE @,
              ![t].logged =
                  @ \o get(StatusPath(body[t].id, cluster.name)).log
                    \o (IF r.ok THEN <<>>
                        ELSE <<ErrorLine("Error getting cluster status for {}, {}: {}",
                                         <<body[t].name, cluster.name, r.err>>)>>)]
        /\ sem' = DropPermit(over)
    /\ UNCHANGED <<upstream, pc, result, body, next, handles, mainCalls, mainLogged, pass>>

\* The request a task is awaiting the answer of: none before it is spawned
\* and after its block has ended, otherwise the one await it is suspended at.
Awaited(t) ==
    CASE task[t].pc = "users" -> <<UsersPath(body[t].id)>>
      [] task[t].pc = "clusters" -> <<ClustersPath(body[t].id)>>
      [] task[t].pc = "status" ->
            <<StatusPath(body[t].id, ClusterAt(task[t].clusters, task[t].k).name)>>
      [] OTHER -> <<>>

\* The request get_metrics itself is awaiting the answer of.
MainAwaited == IF pc = "groups" THEN <<GroupsPath>> ELSE <<>>

(***************************************************************************)
(* The caller                                                              *)
(***************************************************************************)
\* The caller starts the next pass once get_metrics has returned: every
\* local of the returned call is gone, the next call builds its own.
NextPass ==
    /\ pc = "returned"
    /\ pass < MaxPasses
    /\ pass' = pass + 1
    /\ pc' = "idle"
    /\ result' = <<>>
    /\ body' = <<>>
    /\ next' = 0
    /\ sem' = 0
    /\ handles' = <<>>
    /\ task' = <<>>
    /\ mainCalls' = <<>>
    /\ mainLogged' = <<>>
    /\ UNCHANGED upstream

\* Mutant: dropping the handles aborts the tasks they stand for.
DetachedAborting(tasks) ==
    [t \in DOMAIN tasks |->
        IF tasks[t].pc = "unspawned" THEN tasks[t]
        ELSE [tasks[t] EXCEPT !.pc = "done"]]

\* tokio::spawn: a spawned task runs on the runtime whether or not its
\* JoinHandle is kept; the tasks when the handle vector is dropped.
Detached(tasks) == tasks

\* The caller drops the get_metrics future while it is suspended at one of
\* its awaits (get_groups, acquire_owned, join_all): its locals are dropped,
\* the handle vector among them.
Cancel ==
    /\ pc \in {"groups", "loop", "join"}
    /\ pc' = "dropped"
    /\ handles' = <<>>
    /\ task' = Detached(task)
    /\ UNCHANGED <<upstream, result, body, next, sem, mainCalls, mainLogged, pass>>

(***************************************************************************)
(* Specifications                                                          *)
(***************************************************************************)
Idle(up) ==
    /\ upstream = up
    /\ pc = "idle"
    /\ result = <<>>
    /\ body = <<>>
    /\ next = 0
    /\ sem = 0
    /\ handles = <<>>
    /\ task = <<>>
    /\ mainCalls = <<>>
    /\ mainLogged = <<>>
    /\ pass = 1

\* Up to MaxEntities groups, each with any of the profiles, or a failing
\* groups request in front of one group.
Init ==
    \/ \E n \in 0..MaxEntities :
         \E listing \in Listings(n), assigned \in [1..n -> DOMAIN Profiles] :
            Idle([groups |-> Http(200, GroupsBody(listing)),
                  entity |-> assigned])
    \/ \E f \in DOMAIN FailingGroupsResponses :
         Idle([groups |-> FailingGroupsResponses[f],
               entity |-> [i \in 1..1 |-> 2]])

\* Up to MaxGroups groups: the first has a cluster, the others repeat
\* profiles without a status fetch.
CapProfiles == <<2, 4, 5, 8>>
CapProfile(i) == IF i = 1 THEN 1 ELSE CapProfiles[((i - 2) % Len(CapProfiles)) + 1]

InitCap ==
    \E n \in 0..MaxGroups :
        Idle([groups |-> Http(200, GroupsBody([i \in 1..n |-> Group(i, "A")])),
              entity |-> [i \in 1..n |-> CapProfile(i)]])

Next ==
    \/ Trigger
    \/ GroupsStep
    \/ Acquire
    \/ Spawn
    \/ JoinAll
    \/ \E t \in Tasks : UsersStep(t)
    \/ \E t \in Tasks : ClustersStep(t)
    \/ \E t \in Tasks : StatusStep(t)

Spec == Init /\ [][Next]_vars

SpecCap == InitCap /\ [][Next]_vars

\* The steps of get_metrics and of its tasks, which the runtime goes on
\* polling while they can run and every request is answered.
MainStep == GroupsStep \/ Acquire \/ Spawn \/ JoinAll
TaskStep == \E t \in Tasks : UsersStep(t) \/ ClustersStep(t) \/ StatusStep(t)
Fairness == WF_vars(MainStep) /\ WF_vars(TaskStep)

\* One pass over the long listings, under fair scheduling.
SpecCapFair == InitCap /\ [][Next]_vars /\ Fairness

\* Passes one after the other.
NextPasses == Next \/ NextPass
SpecPasses == Init /\ [][NextPasses]_vars

\* One pass the caller may drop, under fair scheduling: up to MaxEntities
\* groups, each with a failing users fetch and one cluster, with users and
\* two clusters, or with both fetches failing.
CancelProfiles == {1, 3, 5}
InitCancel ==
    \E n \in 0..MaxEntities :
        \E assigned \in [1..n -> CancelProfiles] :
            Idle([groups |-> Http(200, GroupsBody([i \in 1..n |-> Group(i, Names[i])])),
                  entity |-> assigned])
NextCancel == Next \/ Cancel
SpecCancel == InitCancel /\ [][NextCancel]_vars /\ Fairness

(***************************************************************************)
(* Properties                                                              *)
(***************************************************************************)
\* What the upstream answers, read off the response itself.
Succeeds(path, schema) ==
    LET response == Serve(path) IN
    /\ response.transport = "ok"
    /\ response.status = 200
    /\ response.readable
    /\ response.body.schema = schema

UsersSucceed(t) == Succeeds(UsersPath(body[t].id), "DatabaseUsers")
ClustersSucceed(t) == Succeeds(ClustersPath(body[t].id), "Clusters")
StatusSucceeds(t, cluster) == Succeeds(StatusPath(body[t].id, cluster), "ChangeStatus")

UsersListed(t) == Serve(UsersPath(body[t].id)).body.value.results
ClustersListed(t) == Serve(ClustersPath(body[t].id)).body.value.results
StatusGiven(t, cluster) == Serve(StatusPath(body[t].id, cluster)).body.value.changeStatus

Named(gauges, name) == SelectSeq(gauges, LAMBDA g : g.name = name)
Totals(t) == Named(task[t].emitted, "atlas_exporter_project_users_total")
PerUser(t) == Named(task[t].emitted, "atlas_exporter_project_user")
PerCluster(t) == Named(task[t].emitted, "atlas_exporter_cluster_status")

RECURSIVE SumOver(_, _)
SumOver(S, f) ==
    IF S = {} THEN 0 ELSE LET x == CHOOSE x \in S : TRUE IN f[x] + SumOver(S \ {x}, f)

EmittedInPass == SumOver(Tasks, [t \in Tasks |-> Len(task[t].emitted)])
CalledInPass == Len(mainCalls) + SumOver(Tasks, [t \in Tasks |-> Len(task[t].calls)])

Returned == pc = "returned"
ReturnedOk == pc = "returned" /\ result.ok

\* C1: at no time are more than 8 per-entity tasks spawned and not yet
\* finished, whatever the number of groups and the order of the steps.
C1_ConcurrencyCap == Cardinality(Active) <= 8

\* The loop waits for a permit with a ninth group left and 8 tasks running.
C1_Witness == Cardinality(Active) = 8 /\ pc = "loop" /\ Len(body) > 8

\* The gauges of one group's task alone: a function of that group and of the
\* upstream's answers for that group, and of nothing else.
RECURSIVE AloneStatus(_, _)
AloneStatus(g, clusters) ==
    IF Len(clusters) = 0 THEN <<>>
    ELSE (IF Succeeds(StatusPath(g.id, Head(clusters).name), "ChangeStatus")
          THEN StatusGauges(g, Head(clusters),
                            Serve(StatusPath(g.id, Head(clusters).name)).body.value)
          ELSE <<>>)
         \o AloneStatus(g, Tail(clusters))

Alone(g) ==
    (IF Succeeds(UsersPath(g.id), "DatabaseUsers")
     THEN UsersGauges(g, Serve(UsersPath(g.id)).body.value)
     ELSE <<>>)
    \o (IF Succeeds(ClustersPath(g.id), "Clusters")
        THEN AloneStatus(g, Serve(ClustersPath(g.id)).body.value.results)
        ELSE <<>>)

Failing(t) == Len(task[t].logged) > 0

\* C2: when the pass has returned, every group's task has set exactly the
\* gauges it sets alone, whichever steps of the other groups failed: no
\* failure cancels, skips or alters another group's task.
C2_Isolation ==
    ReturnedOk => \A t \in Tasks : task[t].pc = "done" /\ task[t].emitted = Alone(body[t])

\* A pass has returned in which one group's step failed and another group
\* set gauges.
C2_Witness ==
    /\ ReturnedOk
    /\ \E t, u \in Tasks : t # u /\ Failing(t) /\ Len(task[u].emitted) > 0

\* The error get_groups returns, read off the response.
GroupsFails == ~Succeeds(GroupsPath, "Groups")
GroupsError ==
    LET response == upstream.groups IN
    IF response.transport = "error" THEN Hyper(response.cause)
    ELSE IF response.status = 404 THEN NotFound
    ELSE IF response.status = 403 THEN Forbidden
    ELSE IF response.status = 401 THEN Unauthorized
    ELSE IF response.status # 200 THEN UnknownCode
    ELSE IF ~response.readable THEN Hyper("body")
    ELSE SerdeJson

\* C3: when the groups fetch fails, get_metrics returns its error, and the
\* pass spawns no task, makes no further request and sets no gauge.
C3_ListingFailureIsFatal ==
    GroupsFails =>
        /\ pc \in {"idle", "groups", "returned"}
        /\ Returned => result = Err(GroupsError)
        /\ Len(task) = 0
        /\ Len(handles) = 0
        /\ CalledInPass <= 1
        /\ EmittedInPass = 0

\* get_metrics has returned the error of a failed groups fetch.
C3_Witness == GroupsFails /\ Returned /\ ~result.ok /\ CalledInPass = 1

Has(gauges, g) == \E i \in DOMAIN gauges : gauges[i] = g

\* C4: a finished task has asked for users and then for clusters, whether or
\* not the users fetch failed; after a failed clusters fetch it has asked for
\* no status and set no cluster_status; after a successful one it has asked
\* for the status of every cluster in listing order, whether or not earlier
\* status fetches failed.  With users 401 and the one cluster X APPLIED, no
\* project_users_total is set and cluster_status{project,cluster=X} = 0 is.
C4_StepsWithinTask ==
    \A t \in Tasks : task[t].pc = "done" =>
        LET g == body[t]
            calls == task[t].calls
        IN
        /\ Len(calls) >= 2
        /\ calls[1] = UsersPath(g.id)
        /\ calls[2] = ClustersPath(g.id)
        /\ ~ClustersSucceed(t) => Len(calls) = 2 /\ Len(PerCluster(t)) = 0
        /\ ClustersSucceed(t) =>
              /\ Len(calls) = 2 + Len(ClustersListed(t))
              /\ \A i \in DOMAIN ClustersListed(t) :
                    calls[2 + i] = StatusPath(g.id, ClustersListed(t)[i].name)
        /\ ( /\ Serve(UsersPath(g.id)).status = 401
             /\ ClustersSucceed(t)
             /\ ClustersListed(t) = <<Cluster("X")>>
             /\ StatusSucceeds(t, "X")
             /\ StatusGiven(t, "X") = "APPLIED" )
           => /\ Len(Totals(t)) = 0
              /\ Has(task[t].emitted,
                     gauge("atlas_exporter_cluster_status", 0,
                           << <<"project", g.name>>, <<"cluster", "X">> >>))

\* One finished task had users 401 and its cluster X APPLIED; another went on
\* to the second cluster after the status fetch of the first failed.
C4_Witness ==
    /\ \E t \in Tasks :
          /\ task[t].pc = "done"
          /\ Serve(UsersPath(body[t].id)).status = 401
          /\ Len(PerCluster(t)) = 1
    /\ \E t \in Tasks :
          /\ task[t].pc = "done"
          /\ ClustersSucceed(t)
          /\ Len(ClustersListed(t)) = 2
          /\ ~StatusSucceeds(t, ClustersListed(t)[1].name)
          /\ Len(PerCluster(t)) = 1

\* Some fetch of the pass that sets gauges has succeeded.
SomeFetchSucceeded ==
    \E t \in Tasks :
        \/ UsersSucceed(t)
        \/ /\ ClustersSucceed(t)
           /\ \E i \in DOMAIN ClustersListed(t) : StatusSucceeds(t, ClustersListed(t)[i].name)

\* Every users fetch and every status fetch that succeeded has its gauge.
PublishesComputed ==
    \A t \in Tasks :
        /\ UsersSucceed(t) => Len(Totals(t)) = 1
        /\ ClustersSucceed(t) =>
              \A i \in DOMAIN ClustersListed(t) :
                  StatusSucceeds(t, ClustersListed(t)[i].name) =>
                      \E j \in DOMAIN PerCluster(t) :
                          PerCluster(t)[j].labels[2] =
                              <<"cluster", ClustersListed(t)[i].name>>

\* C5 as stated: a returned pass has published what it computed, and it has
\* set no gauge exactly when the groups fetch failed: every pass whose groups
\* fetch succeeds sets at least one gauge.
C5_Original ==
    Returned =>
        /\ (EmittedInPass = 0) <=> ~result.ok
        /\ result.ok => PublishesComputed

\* C5 amended: a returned pass has published what it computed, and it has
\* set no gauge exactly when the groups fetch failed or no users fetch and no
\* status fetch of the pass succeeded.
C5_Amended ==
    Returned =>
        /\ (EmittedInPass = 0) <=> (~result.ok \/ ~SomeFetchSucceeded)
        /\ result.ok => PublishesComputed

\* A pass over a listing that is not empty has returned Ok without a gauge,
\* every users and clusters fetch having failed.
C5_Witness == ReturnedOk /\ Len(body) > 0 /\ EmittedInPass = 0

LabelSet(g) == {g.labels[i] : i \in DOMAIN g.labels}

\* C6: no two gauges set in one pass have the same name and the same label
\* set and different values.
C6_OneValuePerLabelSet ==
    \A t, u \in Tasks :
        \A i \in DOMAIN task[t].emitted, j \in DOMAIN task[u].emitted :
            LET a == task[t].emitted[i]
                b == task[u].emitted[j]
            IN (a.name = b.name /\ LabelSet(a) = LabelSet(b)) => a.value = b.value

\* The clusters of a task whose status fetch succeeds, in listing order.
Answered(t) ==
    SelectSeq(task[t].clusters, LAMBDA c : StatusSucceeds(t, c.name))

\* C7: a finished task has set one cluster_status gauge per cluster whose
\* status fetch succeeded, labelled with project and cluster, of value 0 for
\* APPLIED, 1 for PENDING and 2 for any other string.
C7_StatusOrdinal ==
    \A t \in Tasks : task[t].pc = "done" =>
        /\ Len(PerCluster(t)) = Len(Answered(t))
        /\ \A i \in DOMAIN PerCluster(t) :
              LET s == StatusGiven(t, Answered(t)[i].name) IN
              /\ PerCluster(t)[i].labels =
                    << <<"project", body[t].name>>, <<"cluster", Answered(t)[i].name>> >>
              /\ PerCluster(t)[i].value =
                    (IF s = "APPLIED" THEN 0 ELSE IF s = "PENDING" THEN 1 ELSE 2)

\* A finished task has set the values 1 and 2, the 2 for "DELETING".
C7_Witness ==
    \E t \in Tasks :
        /\ task[t].pc = "done"
        /\ \E i, j \in DOMAIN PerCluster(t) :
              /\ PerCluster(t)[i].value = 1
              /\ PerCluster(t)[j].value = 2
              /\ StatusGiven(t, Answered(t)[j].name) = "DELETING"

PastUsers(t) == task[t].pc \in {"clusters", "status", "done"}

Of(gauges, username) ==
    SelectSeq(gauges, LAMBDA g : g.labels[1] = <<"username", username>>)

\* C8: after a successful users fetch, a user without scopes has exactly one
\* project_user gauge, of scope "all" and value 1; a user with scopes has
\* exactly one per scope, in order, of that scope's name and value 1, and the
\* task has no other project_user gauge.  (User names are distinct within a
\* listing.)
C8_UserScopes ==
    \A t \in Tasks : (PastUsers(t) /\ UsersSucceed(t)) =>
        /\ \A k \in DOMAIN UsersListed(t) :
              LET user == UsersListed(t)[k]
                  mine == Of(PerUser(t), user.username)
                  Labels(scope) ==
                      << <<"username", user.username>>, <<"project", body[t].name>>,
                         <<"scope", scope>> >>
              IN
              IF Len(user.scopes) = 0
              THEN mine = <<gauge("atlas_exporter_project_user", 1, Labels("all"))>>
              ELSE /\ Len(mine) = Len(user.scopes)
                   /\ \A i \in DOMAIN mine :
                         mine[i] = gauge("atlas_exporter_project_user", 1,
                                         Labels(user.scopes[i].name))
        /\ \A i \in DOMAIN PerUser(t) :
              \E k \in DOMAIN UsersListed(t) :
                  PerUser(t)[i].labels[1] = <<"username", UsersListed(t)[k].username>>

\* A task has set the gauges of a user without scopes and of a user with two.
C8_Witness ==
    \E t \in Tasks :
        /\ PastUsers(t) /\ UsersSucceed(t)
        /\ \E k, m \in DOMAIN UsersListed(t) :
              /\ Len(UsersListed(t)[k].scopes) = 0
              /\ Len(UsersListed(t)[m].scopes) = 2
        /\ Len(PerUser(t)) = 3

\* C9: a task sets project_users_total{project} exactly when its users fetch
\* succeeds, once and to the number of users listed; after a failed users
\* fetch it has neither that gauge nor a project_user gauge.
C9_UsersTotal ==
    \A t \in Tasks :
        IF PastUsers(t) /\ UsersSucceed(t)
        THEN Totals(t) =
                <<gauge("atlas_exporter_project_users_total", Len(UsersListed(t)),
                        << <<"project", body[t].name>> >>)>>
        ELSE Len(Totals(t)) = 0 /\ Len(PerUser(t)) = 0

\* A total of 0 has been set for an empty listing, and a task is past a
\* failed users fetch.
C9_Witness ==
    /\ \E t \in Tasks : Len(Totals(t)) = 1 /\ Totals(t)[1].value = 0
    /\ \E t \in Tasks : PastUsers(t) /\ ~UsersSucceed(t)

\* Every path State::get has been called with in this pass.
Paths ==
    {mainCalls[i] : i \in DOMAIN mainCalls}
        \cup UNION {{task[t].calls[i] : i \in DOMAIN task[t].calls} : t \in Tasks}

OtherStatus(response) ==
    response.transport = "ok" /\ response.status \notin {200, 401, 403, 404}

\* What State::get returns for the statuses it names and for a transport
\* failure.
NamedStatus(response, res) ==
    IF response.transport = "error"
    THEN res = Err([kind |-> "Hyper", payload |-> <<response.cause>>])
    ELSE /\ response.status = 404 => res = Err([kind |-> "NotFound", payload |-> <<>>])
         /\ response.status = 403 => res = Err([kind |-> "Forbidden", payload |-> <<>>])
         /\ response.status = 401 => res = Err([kind |-> "Unauthorized", payload |-> <<>>])
         /\ response.status = 200 => res.ok /\ res.val = response

\* C10 as stated: State::get returns NotFound for 404, Forbidden for 403,
\* Unauthorized for 401, the response itself for 200, an error carrying the
\* status code for any other status, and an error carrying the cause for a
\* transport failure.
C10_Original ==
    \A path \in Paths :
        /\ NamedStatus(Serve(path), get(path).res)
        /\ OtherStatus(Serve(path)) =>
              /\ ~get(path).res.ok
              /\ get(path).res.err.payload = <<Serve(path).status>>

\* C10 amended: as stated, but the error for any other status is UnknownCode,
\* which carries nothing: the status code goes to the error log only.
C10_Amended ==
    \A path \in Paths :
        /\ NamedStatus(Serve(path), get(path).res)
        /\ OtherStatus(Serve(path)) =>
              /\ get(path).res = Err([kind |-> "UnknownCode", payload |-> <<>>])
              /\ \E i \in DOMAIN get(path).log :
                    get(path).log[i].args = <<Serve(path).status>>

\* State::get has been called for a path the upstream answers with another
\* 2xx status.
C10_Witness ==
    \E path \in Paths : OtherStatus(Serve(path)) /\ Serve(path).status \in 200..299

Kind(path) ==
    IF Len(path) = 2 THEN "groups"
    ELSE IF Len(path) = 5 THEN "status"
    ELSE path[3]

\* The requests of one kind sent in the pass, by get_metrics and by its tasks.
OfKind(calls, kind) == Len(SelectSeq(calls, LAMBDA path : Kind(path) = kind))
RequestsOfKind(kind) ==
    OfKind(mainCalls, kind) + SumOver(Tasks, [t \in Tasks |-> OfKind(task[t].calls, kind)])

\* The clusters listed to the groups whose clusters fetch succeeds.
ClustersInPass ==
    SumOver(Tasks, [t \in Tasks |->
        IF ClustersSucceed(t) THEN Len(ClustersListed(t)) ELSE 0])

\* C12: nothing is asked for twice.  A returned pass has sent one groups
\* request; if the listing failed it has sent nothing else, otherwise one
\* users and one clusters request per group, whether they succeeded or not,
\* and one status request per cluster listed to a group whose clusters fetch
\* succeeded; and at no time has a pass sent more than that.
C12_NoRetries ==
    /\ RequestsOfKind("groups") <= 1
    /\ RequestsOfKind("databaseUsers") <= Len(body)
    /\ RequestsOfKind("clusters") <= Len(body)
    /\ RequestsOfKind("status") <= ClustersInPass
    /\ Returned =>
          /\ RequestsOfKind("groups") = 1
          /\ RequestsOfKind("databaseUsers") = Len(body)
          /\ RequestsOfKind("clusters") = Len(body)
          /\ RequestsOfKind("status") = ClustersInPass
          /\ CalledInPass = 1 + 2 * Len(body) + ClustersInPass

\* A pass over two groups has returned: fetches of each step failed in it,
\* and it sent at least two status requests.
C12_Witness ==
    /\ ReturnedOk
    /\ Len(body) = 2
    /\ ClustersInPass >= 2
    /\ \E t \in Tasks : ~UsersSucceed(t)
    /\ \E t \in Tasks : ~ClustersSucceed(t)
    /\ \E t \in Tasks :
          ClustersSucceed(t) /\ ~StatusSucceeds(t, ClustersListed(t)[1].name)

\* The semaphore of the pass exists: the loop runs or is over.
FannedOut == pc \in {"loop", "spawn", "join"} \/ ReturnedOk

\* The requests a task sends from its first to its last.
AllRequests(t) ==
    2 + (IF ClustersSucceed(t) THEN Len(ClustersListed(t)) ELSE 0)

\* A group's permit is taken before its first request and given back only
\* after its last has been answered: a task that has not been spawned has
\* sent and awaits nothing, the loop spawns group by group behind acquire, and
\* a task whose permit is back awaits nothing and has sent all its requests,
\* failed ones included.
SlotSpansRequests ==
    \A t \in Tasks :
        /\ task[t].pc = "unspawned" => Len(task[t].calls) = 0 /\ Len(Awaited(t)) = 0
        /\ task[t].pc # "unspawned" => t < next
        /\ t \in Active => Len(task[t].calls) < AllRequests(t) /\ Len(Awaited(t)) = 1
        /\ task[t].pc = "done" =>
              Len(task[t].calls) = AllRequests(t) /\ Len(Awaited(t)) = 0

\* The permit the loop has acquired for a task it has not spawned yet.
HeldByLoop == IF pc = "spawn" THEN 1 ELSE 0

\* C13 as stated: the permit spans the requests of its group, the active
\* tasks and the free permits always add up to 8, and all 8 are free when the
\* pass has ended.
C13_Original ==
    /\ SlotSpansRequests
    /\ FannedOut => Cardinality(Active) + sem = 8
    /\ ReturnedOk => sem = 8

\* C13, amended: the permit spans the requests of its group; the active
\* tasks, the free permits and the permit the loop holds between acquiring
\* it and spawning its task add up to 8; all 8 are free when the pass has
\* ended.
C13_Amended ==
    /\ SlotSpansRequests
    /\ FannedOut => Cardinality(Active) + HeldByLoop + sem = 8
    /\ ReturnedOk => sem = 8

\* The loop holds the last permit for the eighth group, seven tasks running,
\* one of which has had a fetch fail.
C13_Witness ==
    /\ pc = "spawn"
    /\ sem = 0
    /\ Cardinality(Active) = 7
    /\ \E t \in Active : Failing(t)

\* C14: when get_metrics returns Ok every task of the pass has finished, and
\* once it has returned no task does anything more: every gauge of the pass
\* is set before the pass is reported complete.
C14_ReturnsAfterTasks ==
    [][ /\ (pc' = "returned" /\ result'.ok) =>
              \A t \in DOMAIN task' : task'[t].pc = "done"
        /\ pc = "returned" => task' = task ]_vars

\* A pass over two groups has returned, both tasks having set gauges, one of
\* them after a failed fetch.
C14_Witness ==
    /\ ReturnedOk
    /\ Len(body) = 2
    /\ \A t \in Tasks : Len(task[t].emitted) > 0
    /\ \E t \in Tasks : Failing(t)

\* The listing the upstream answers the groups request with.
GroupsListed == upstream.groups.body.value.results

\* The steps a pass has taken: those of get_metrics (the call, the groups
\* fetch, an acquire and a spawn per group, the join) and the fetches its
\* tasks have had answered.
MainTaken ==
    CASE pc = "idle" -> 0
      [] pc = "groups" -> 1
      [] pc = "loop" -> 2 * next
      [] pc = "spawn" -> 2 * next + 1
      [] pc = "join" -> 2 * Len(body) + 2
      [] OTHER -> 2 * Len(body) + 3
RECURSIVE AnsweredUpTo(_)
AnsweredUpTo(n) == IF n = 0 THEN 0 ELSE Len(task[n].calls) + AnsweredUpTo(n - 1)
StepsTaken == MainTaken + AnsweredUpTo(Len(task))

\* C15: a pass that has been started returns, whatever the length of the
\* listing and whichever fetches fail.  get_metrics waits only for a permit
\* or for its tasks: when it waits for a permit a task holding one can take a
\* step, and when no task is left running join_all completes; every step adds
\* to the steps taken, so no run goes round in circles.  Under Fairness the
\* steps that can be taken are taken, so the pass returns.
C15_Termination ==
    /\ []((pc = "loop" /\ ~PermitFree) => ENABLED TaskStep)
    /\ []((pc = "join" /\ Cardinality(Active) = 0) => ENABLED JoinAll)
    /\ [][StepsTaken' > StepsTaken]_vars

\* A pass over more than 8 groups has returned, one of them with both its
\* fetches failed.
C15_Witness ==
    /\ Returned
    /\ Len(body) > 8
    /\ \E t \in Tasks : ~UsersSucceed(t) /\ ~ClustersSucceed(t)

\* C16: with the groups fetch succeeding, the loop spawns the groups of the
\* listing one by one in its order, none twice; when the pass has returned
\* there is one finished task per group of the listing, each having asked
\* for its own group, and none for anything else; an empty listing spawns
\* nothing and join_all completes at once.
C16_OneTaskPerEntity ==
    /\ \A i \in DOMAIN handles : handles[i] = i
    /\ Len(handles) <= Len(body)
    /\ (pc = "join" /\ Len(body) = 0) => ENABLED JoinAll
    /\ ReturnedOk =>
          /\ body = GroupsListed
          /\ DOMAIN task = DOMAIN GroupsListed
          /\ DOMAIN handles = DOMAIN GroupsListed
          /\ \A t \in Tasks :
                /\ task[t].pc = "done"
                /\ task[t].calls[1] = UsersPath(GroupsListed[t].id)
                /\ task[t].calls[2] = ClustersPath(GroupsListed[t].id)

\* A pass over more than 8 groups has returned, a task spawned for each.
C16_Witness == ReturnedOk /\ Len(body) > 8 /\ Len(handles) = Len(body)

\* The requests of a group's task in the order the claim gives them: users,
\* clusters, then the status of every listed cluster in listing order.
InOrder(t) ==
    <<UsersPath(body[t].id), ClustersPath(body[t].id)>>
        \o (IF ClustersSucceed(t)
            THEN [i \in DOMAIN ClustersListed(t) |->
                     StatusPath(body[t].id, ClustersListed(t)[i].name)]
            ELSE <<>>)

IsPrefix(s, t) == Len(s) <= Len(t) /\ \A i \in DOMAIN s : s[i] = t[i]

\* C17: at any time the requests a task has had answered, followed by the
\* request it awaits, are an initial part of users, clusters, status per
\* cluster in listing order, and it awaits at most one request: a request is
\* sent only when every request before it in that order has been answered.
C17_SequentialRequests ==
    \A t \in Tasks :
        /\ Len(Awaited(t)) <= 1
        /\ IsPrefix(task[t].calls \o Awaited(t), InOrder(t))

\* A task awaits the status of its second cluster, Y, the status fetch of
\* its first, X, having failed.
C17_Witness ==
    \E t \in Tasks :
        /\ task[t].pc = "status"
        /\ Len(task[t].calls) = 3
        /\ Awaited(t) = <<StatusPath(body[t].id, "Y")>>
        /\ ~StatusSucceeds(t, "X")

\* The requests that have been sent and not answered.
Outstanding == Len(MainAwaited) + Cardinality({t \in Tasks : Len(Awaited(t)) > 0})

\* C18: at no time are more than 8 requests sent and not yet answered.
C18_OutstandingRequests == Outstanding <= 8

\* 8 requests are outstanding, a status request among them, and the loop
\* waits with groups left.
C18_Witness ==
    /\ Outstanding = 8
    /\ pc = "loop"
    /\ \E t \in Tasks : task[t].pc = "status"

\* The step an error line says has failed, read off its message.
StepOfMessage(msg) ==
    CASE msg = "Error getting database users for {}: {}" -> "users"
      [] msg = "Error getting clusters for {}: {}" -> "clusters"
      [] msg = "Error getting cluster status for {}, {}: {}" -> "cluster status"
      [] OTHER -> "none"

\* The task of group t has logged an error line that names the step and whose
\* first argument is the id of the group.
LoggedAs(t, step) ==
    \E i \in DOMAIN task[t].logged :
        LET line == task[t].logged[i] IN
        /\ line.level = "error"
        /\ StepOfMessage(line.msg) = step
        /\ Len(line.args) > 0
        /\ ToString(line.args[1]) = ToString(body[t].id)

\* C19: a finished task has logged every fetch of its own that failed, with
\* the id of its group and under the name of the step: a failed users fetch
\* as a users failure, a failed clusters fetch as a clusters failure, a
\* failed status fetch as a cluster status failure.
C19_ErrorsNameEntityAndStep ==
    \A t \in Tasks : task[t].pc = "done" =>
        /\ ~UsersSucceed(t) => LoggedAs(t, "users")
        /\ ~ClustersSucceed(t) => LoggedAs(t, "clusters")
        /\ ClustersSucceed(t) =>
              \A i \in DOMAIN ClustersListed(t) :
                  ~StatusSucceeds(t, ClustersListed(t)[i].name) =>
                      LoggedAs(t, "cluster status")

\* C20: once the caller has dropped get_metrics, every task that had been
\* spawned goes on: under fair scheduling it comes to its end, a task that
\* has ended has sent all its requests and set the gauges it sets alone, and
\* the permits not held by a running task are free, all 8 when none runs.
C20_NoCancellation ==
    /\ [](pc = "dropped" =>
            \A t \in Tasks : task[t].pc = "done" =>
                /\ Len(task[t].calls) = AllRequests(t)
                /\ task[t].emitted = Alone(body[t]))
    /\ []((pc = "dropped" /\ Len(mainCalls) = 1) =>
            Cardinality(Active) + sem = Permits)
    /\ [][pc = "dropped" =>
            \A t \in Tasks : task[t].pc # "unspawned" => task'[t].pc # "unspawned"]_vars
    /\ (pc = "dropped") ~> (pc = "dropped" /\ Cardinality(Active) = 0)

\* The caller dropped get_metrics before the loop had spawned the second
\* group: the first group's task has run to its end, set its gauges and given
\* its permit back.
C20_Witness ==
    /\ pc = "dropped"
    /\ Len(task) = 2
    /\ task[1].pc = "done"
    /\ Len(task[1].emitted) > 0
    /\ task[2].pc = "unspawned"
    /\ sem = Permits
====
